---- MODULE Spec2Model ----
(***************************************************************************)
(* Model of app.py: the translation-catalog cache (MoFileCache), the       *)
(* tankman registry (TankStylesApp.load_tankmen), the substitution engine  *)
(* (TankStylesApp.substitute) and the modpack builder                      *)
(* (TankStylesApp.create_modpack).                                         *)
(*                                                                         *)
(* A Python str is a sequence of pieces.  A piece is one character, or an  *)
(* indivisible run of word characters ([a-zA-Z0-9_-]) written as one TLA+  *)
(* string, so "#navajo:alpha" is << "#", "navajo", ":", "alpha" >>.        *)
(* A Python Optional value is None == << >> or Some(x) == << x >>.         *)
(***************************************************************************)
EXTENDS Integers, Sequences, FiniteSets, TLC

VARIABLES
    pc,           \* position of the process: start, loading, scanning, serving, crashed
    voice_tags,   \* set(load_special_voice_tags()), the local of __init__
    nation_xmls,  \* TankStylesApp.nation_xmls: nation -> stored document
    tankmen,      \* TankStylesApp.tankmen: slug -> Tankman
    cur,          \* load_tankmen: the nation whose file is being scanned
    idx,          \* load_tankmen: index of the next record of that file
    last,         \* the last request served and what it returned
    ref,          \* get_name: the argument user_string
    name          \* get_name: what the call did

vars == << pc, voice_tags, nation_xmls, tankmen, cur, idx, last, ref, name >>

----------------------------------------------------------------------------
(* Bounds of the model.                                                    *)

\* Records in all the nation files together, when the load is checked on
\* its own.
MaxRecords == 2

\* Records in all the nation files together, when requests follow the load.
MaxServed == 3

\* Pieces in a reference string handed to get_name.
MaxRefLen == 4

----------------------------------------------------------------------------
(* Python values.                                                          *)

None == << >>
Some(x) == << x >>
IsNone(o) == o = << >>
Val(o) == o[1]

\* An outcome of a call: a returned value, or the exception that left it.
Return(v) == [ok |-> TRUE, err |-> "", val |-> v]
Raise(e) == [ok |-> FALSE, err |-> e, val |-> None]

----------------------------------------------------------------------------
(* str methods.                                                            *)

Whitespace == {" ", "\t", "\n"}

\* str.strip(): without the leading and trailing whitespace.
Strip(s) ==
    LET keep == {i \in 1..Len(s) : s[i] \notin Whitespace}
    IN  IF keep = {} THEN << >>
        ELSE LET lo == CHOOSE i \in keep : \A j \in keep : i <= j
                 hi == CHOOSE i \in keep : \A j \in keep : j <= i
             IN  SubSeq(s, lo, hi)

\* s[i:].startswith(sub), i counted from 1.
StartsAt(s, sub, i) ==
    /\ i + Len(sub) - 1 <= Len(s)
    /\ \A k \in 1..Len(sub) : s[i + k - 1] = sub[k]

\* str.find(sub): the lowest index (from 0) at which sub occurs, or -1.
Find(s, sub) ==
    LET at == {i \in 1..(Len(s) + 1) : StartsAt(s, sub, i)}
    IN  IF at = {} THEN -1
        ELSE (CHOOSE i \in at : \A j \in at : i <= j) - 1

\* str.split(' ') as a set: the pieces between two neighbouring single
\* spaces, the empty ones included; no other whitespace separates.
SplitSpace(s) ==
    LET cuts == {0, Len(s) + 1} \cup {i \in 1..Len(s) : s[i] = " "}
    IN  {SubSeq(s, c[1] + 1, c[2] - 1) :
            c \in {d \in cuts \X cuts :
                     /\ d[1] < d[2]
                     /\ \A m \in cuts : ~(d[1] < m /\ m < d[2])}}

\* str.replace(old, new): every non-overlapping occurrence of old, found
\* left to right, becomes new; an empty old matches before every piece and
\* at the end.
RECURSIVE ReplaceFrom(_, _, _, _)
ReplaceFrom(s, old, new, i) ==
    IF i > Len(s) THEN (IF old = << >> THEN new ELSE << >>)
    ELSE IF old = << >> THEN new \o << s[i] >> \o ReplaceFrom(s, old, new, i + 1)
    ELSE IF StartsAt(s, old, i) THEN new \o ReplaceFrom(s, old, new, i + Len(old))
    ELSE << s[i] >> \o ReplaceFrom(s, old, new, i + 1)

Replace(s, old, new) == ReplaceFrom(s, old, new, 1)

----------------------------------------------------------------------------
(* MoFileCache.                                                            *)

\* The value a catalog stores for "explicitly empty".
EmptySentinel == << "?empty?" >>

\* The catalogs found in the mo directory: file base name -> msgid -> msgstr.
MoCache ==
    << "navajo" >> :> ( << "alpha" >> :> << "Pavel" >>
                     @@ << "beta" >> :> << "Morozov" >>
                     @@ << "empty" >> :> EmptySentinel )
 @@ << "cache" >> :> ( << "alpha" >> :> << "Ivan" >> )

\* polib.MOFile(): a catalog without entries.
EmptyMOFile == [k \in {} |-> << >>]

\* What normal attribute lookup finds on a MoFileCache before __getattr__
\* is asked: the instance's cache dict and the class's methods.
InstanceAttrs == { << "cache" >>, << "get_name" >>, << "__init__" >>, << "__getattr__" >> }

\* __getattr__: the catalog of that name, or an empty catalog.
GetAttrFallback(item) ==
    IF item \in DOMAIN MoCache THEN MoCache[item] ELSE EmptyMOFile

\* The characters [a-zA-Z0-9_-] of the filename group; a word piece is one
\* or more of them.
NotWord == {"#", ":", " ", "\t", "\n", ".png", "?empty?"}
IsWord(c) == c \notin NotWord

\* re.search("#(?P<filename>[a-zA-Z0-9_-]+):(?P<slug>.+)", s) matches at i:
\* a "#", a maximal run of word characters, a ":" and at least one
\* character that is not a newline.
MatchAt(s, i) ==
    /\ s[i] = "#"
    /\ \E k \in (i + 1)..Len(s) :
        /\ \A j \in (i + 1)..k : IsWord(s[j])
        /\ k + 2 <= Len(s)
        /\ s[k + 1] = ":"
        /\ s[k + 2] # "\n"

\* The start of the leftmost match, or 0 when nothing matches.
MatchStart(s) ==
    IF \E i \in 1..Len(s) : MatchAt(s, i)
    THEN CHOOSE i \in 1..Len(s) : MatchAt(s, i) /\ \A j \in 1..(i - 1) : ~MatchAt(s, j)
    ELSE 0

\* The end of the filename group of the match that starts at i.
FilenameEnd(s, i) ==
    CHOOSE k \in (i + 1)..Len(s) :
        /\ \A j \in (i + 1)..k : IsWord(s[j])
        /\ k + 1 <= Len(s)
        /\ s[k + 1] = ":"

\* The end of the slug group that starts at j: .+ stops before a newline.
SlugEnd(s, j) ==
    IF \E n \in j..Len(s) : s[n] = "\n"
    THEN (CHOOSE n \in j..Len(s) : s[n] = "\n" /\ \A m \in j..(n - 1) : s[m] # "\n") - 1
    ELSE Len(s)

\* MOFile.find(slug) and lines 36-37: the msgstr of the entry whose msgid is
\* slug, None when there is no such entry.
FindEntry(catalog, slug) ==
    IF slug \in DOMAIN catalog THEN Return(Some(catalog[slug])) ELSE Return(None)

\* Line 35: getattr(self, mo_filename, None).find(slug).  An attribute that
\* normal lookup finds is no catalog and has no find.
LookupEntry(mo_filename, slug) ==
    IF mo_filename \in InstanceAttrs THEN Raise("AttributeError")
    ELSE FindEntry(GetAttrFallback(mo_filename), slug)

\* Lines 33-37 for the match that starts at i and whose filename ends at k.
MatchedName(s, i, k) ==
    LookupEntry(SubSeq(s, i + 1, k), SubSeq(s, k + 2, SlugEnd(s, k + 2)))

\* Lines 30-37 with the start i of the match, 0 for no match.
SearchedName(s, i) ==
    IF i = 0 THEN Return(None) ELSE MatchedName(s, i, FilenameEnd(s, i))

\* get_name(user_string), user_string a str: Return(None),
\* Return(Some(msgstr)), or the AttributeError of line 35.
GetName(user_string) ==
    IF user_string = << >> THEN Return(None)
    ELSE SearchedName(user_string, MatchStart(user_string))

----------------------------------------------------------------------------
(* XML documents.  A stored document is the text of a nation file: the     *)
(* records under premiumGroups in file order, each with its slug (the      *)
(* element's tag name) and its four containers.  A container that is not   *)
(* in the record is None; tags holds its character content, the other      *)
(* three hold the character contents of their children.                    *)

\* lxml: the .text of an element without character content is None.
ElemText(content) == IF content = << >> THEN None ELSE Some(content)

\* etree.tostring: a text of None and a text of "" are both written as no
\* characters.
TextContent(text) == IF IsNone(text) THEN << >> ELSE Val(text)

\* load_xml_from_str: the element tree of a stored document.
ParseRecord(r) ==
    [slug |-> r.slug,
     tags |-> IF IsNone(r.tags) THEN None ELSE Some(ElemText(Val(r.tags))),
     firstNames |-> IF IsNone(r.firstNames) THEN None
                    ELSE Some([i \in 1..Len(Val(r.firstNames)) |-> ElemText(Val(r.firstNames)[i])]),
     lastNames |-> IF IsNone(r.lastNames) THEN None
                   ELSE Some([i \in 1..Len(Val(r.lastNames)) |-> ElemText(Val(r.lastNames)[i])]),
     icons |-> IF IsNone(r.icons) THEN None
               ELSE Some([i \in 1..Len(Val(r.icons)) |-> ElemText(Val(r.icons)[i])])]

load_xml_from_str(content) == [i \in 1..Len(content) |-> ParseRecord(content[i])]

\* etree.tostring(xml).decode(): the text of an element tree.
SerializeRecord(e) ==
    [slug |-> e.slug,
     tags |-> IF IsNone(e.tags) THEN None ELSE Some(TextContent(Val(e.tags))),
     firstNames |-> IF IsNone(e.firstNames) THEN None
                    ELSE Some([i \in 1..Len(Val(e.firstNames)) |-> TextContent(Val(e.firstNames)[i])]),
     lastNames |-> IF IsNone(e.lastNames) THEN None
                   ELSE Some([i \in 1..Len(Val(e.lastNames)) |-> TextContent(Val(e.lastNames)[i])]),
     icons |-> IF IsNone(e.icons) THEN None
               ELSE Some([i \in 1..Len(Val(e.icons)) |-> TextContent(Val(e.icons)[i])])]

tostring(xml) == [i \in 1..Len(xml) |-> SerializeRecord(xml[i])]

\* getattr(tankman.find('tags'), 'text', ''): '' when the record has no
\* tags element, else the element's text, None included.
TagsText(e) == IF IsNone(e.tags) THEN Some(<< >>) ELSE Val(e.tags)

\* next(iter(tankman.find(container))).text: the text of the first child,
\* TypeError when the container is missing (iter(None)), StopIteration when
\* it has no child.
FirstChildText(container) ==
    IF IsNone(container) THEN Raise("TypeError")
    ELSE IF Len(Val(container)) = 0 THEN Raise("StopIteration")
    ELSE Return(Val(container)[1])

----------------------------------------------------------------------------
(* Maps (Python dicts).                                                    *)

EmptyMap == [k \in {} |-> None]
Put(f, k, v) == [x \in (DOMAIN f) \cup {k} |-> IF x = k THEN v ELSE f[x]]

----------------------------------------------------------------------------
(* The startup inputs: special_voices.xml and the tankmen directory.       *)

Nations == {"usa", "ussr"}

A == << "a" >>
B == << "b" >>
RaceSlug == << "b", "race" >>

\* special_voices.xml: the text of the tag field of every voiceover entry.
SpecialVoices == << << " ", "v" >>, << "w" >>, << "v", "w", "\n" >>, << "v" >> >>

\* load_special_voice_tags, collected into a set by __init__.
load_special_voice_tags == {Strip(SpecialVoices[i]) : i \in 1..Len(SpecialVoices)}

RefAlpha == << " ", "#", "navajo", ":", "alpha" >>
RefBeta == << "#", "navajo", ":", "beta", " " >>
RefEmpty == << "#", "navajo", ":", "empty" >>

Rec(n, slug, tags, firstNames, lastNames) ==
    [slug |-> slug, tags |-> tags, firstNames |-> firstNames,
     lastNames |-> lastNames, icons |-> Some(<< << n >> \o slug \o << ".png", " " >> >>)]

\* Records of a nation file that exercise the scan: every shape of the name
\* containers under a qualifying tags text, every shape of the tags text
\* under well-formed names, and a race variant.
LoadTags ==
    { None, Some(<< >>), Some(<< "x" >>), Some(<< "v", "\t", "x" >>),
      Some(<< "x", " ", " ", "w", " " >>), Some(<< "v", "w", "x" >>) }

LoadRecords(n) ==
         {Rec(n, s, Some(<< "v" >>), Some(<< f >>), l) :
            s \in {A, B}, f \in {RefAlpha, RefEmpty},
            l \in {None, Some(<< >>), Some(<< RefBeta >>), Some(<< RefEmpty >>)}}
    \cup {Rec(n, s, t, Some(<< RefAlpha >>), Some(<< RefBeta >>)) :
            s \in {A, B}, t \in LoadTags}
    \cup {Rec(n, RaceSlug, Some(<< "v" >>), Some(<< RefAlpha >>), Some(<< RefBeta >>))}

\* All documents of at most k records drawn from pool.
Docs(pool, k) == UNION {[1..m -> pool] : m \in 0..k}

\* Records stored so far, all nation files together.
RECURSIVE Stored(_, _)
Stored(xmls, ns) ==
    IF ns = {} THEN 0
    ELSE LET n == CHOOSE x \in ns : TRUE
         IN  Len(xmls[n]) + Stored(xmls, ns \ {n})

----------------------------------------------------------------------------
(* TankStylesApp.load_tankmen.                                             *)

\* slug.find('race') != -1
IsRace(slug) == Find(slug, << "race" >>) # -1

\* set(text.strip().split(' ')) of a tags text that is a str.
TagSet(text) == SplitSpace(Strip(text))

\* next(iter(tags & voice_tags), None): any one tag of the intersection,
\* whichever the set's iteration yields first, or None.
VoiceTagChoices(tags, vts) ==
    IF tags \cap vts = {} THEN {None} ELSE {Some(t) : t \in tags \cap vts}

\* try: next(iter(tankman.find('lastNames'))).text
\* except (StopIteration, AttributeError): ""
Excepted(got) ==
    IF got.ok THEN got
    ELSE IF got.err \in {"StopIteration", "AttributeError"} THEN Return(Some(<< >>))
    ELSE got

SecondName(lastNames) == Excepted(FirstChildText(lastNames))

\* last_name = get_name(...); if last_name == '?empty?': last_name = ""
ResolveLastName(got) == IF got = Some(EmptySentinel) THEN Some(<< >>) ELSE got

\* The first_name argument of Tankman(...): get_name's result as it is.
ResolveFirstName(got) == got

\* Tankman(first_name, last_name, icon, slug, voice_tag), nation_data empty.
Tankman(first_name, last_name, icon, slug, voice_tag) ==
    [first_name |-> first_name, last_name |-> last_name, icon |-> icon,
     slug |-> slug, voice_tag |-> voice_tag, nation_data |-> EmptyMap]

SubstitutionData(first_name, last_name, icon, tags) ==
    [first_name |-> first_name, last_name |-> last_name, icon |-> icon, tags |-> tags]

\* Lines 119-128 once the three texts are known to be strings: the new
\* Tankman, or get_name's exception.
MakeTankman(slug, voice_tag, got_first, got_last, icon) ==
    IF ~got_last.ok THEN got_last
    ELSE IF ~got_first.ok THEN got_first
    ELSE Return(Tankman(ResolveFirstName(got_first.val), ResolveLastName(got_last.val),
                        icon, slug, voice_tag))

\* Lines 118-128: the Tankman of a slug seen for the first time, or the
\* AttributeError of .strip() on a text that is None.
NewTankman(slug, voice_tag, first_name, second_name, icon) ==
    IF IsNone(second_name) \/ IsNone(first_name) \/ IsNone(icon)
    THEN Raise("AttributeError")
    ELSE MakeTankman(slug, voice_tag, GetName(Strip(Val(first_name))),
                     GetName(Strip(Val(second_name))), Strip(Val(icon)))

\* Lines 130-135: this nation's SubstitutionData goes into the Tankman that
\* is, or was just made, the slug's.
StoreNationData(tm, nation, slug, made, data) ==
    IF ~made.ok THEN made
    ELSE Return(Put(tm, slug, [made.val EXCEPT !.nation_data = Put(@, nation, data)]))

\* Register without the test of line 118: a Tankman is made anew for every
\* selected record.
RegisterAlways(tm, nation, slug, voice_tag, first_name, second_name, icon, tags) ==
    StoreNationData(tm, nation, slug,
        NewTankman(slug, voice_tag, first_name, second_name, icon),
        SubstitutionData(first_name, second_name, icon, tags))

\* Lines 118-135 on the directory tm: create the Tankman unless the slug is
\* registered, then store this nation's SubstitutionData.
Register(tm, nation, slug, voice_tag, first_name, second_name, icon, tags) ==
    StoreNationData(tm, nation, slug,
        IF slug \notin DOMAIN tm
        THEN NewTankman(slug, voice_tag, first_name, second_name, icon)
        ELSE Return(tm[slug]),
        SubstitutionData(first_name, second_name, icon, tags))

\* Whether the loop body goes on after lines 104-110, given the voice tag
\* the intersection yielded.
Selected(slug, voice_tag) ==
    /\ ~IsRace(slug)
    /\ ~IsNone(voice_tag)
    /\ Val(voice_tag) # << >>

\* Lines 112-135 with what the three containers gave.
ScanNames(tm, nation, e, voice_tag, first_name, second_name, icon) ==
    IF ~first_name.ok THEN first_name
    ELSE IF ~second_name.ok THEN second_name
    ELSE IF ~icon.ok THEN icon
    ELSE Register(tm, nation, e.slug, voice_tag, first_name.val,
                  second_name.val, icon.val, TagsText(e))

\* One pass of the loop body, lines 103-135, over the element e with the
\* voice tag that next(iter(...)) yielded: the directory after it, or the
\* exception that ends the load.
ScanOne(tm, nation, e, voice_tag) ==
    IF IsRace(e.slug) THEN Return(tm)
    ELSE IF IsNone(TagsText(e)) THEN Raise("AttributeError")
    ELSE IF ~Selected(e.slug, voice_tag) THEN Return(tm)
    ELSE ScanNames(tm, nation, e, Val(voice_tag), FirstChildText(e.firstNames),
                   SecondName(e.lastNames), FirstChildText(e.icons))

\* The voice tags next(iter(tags & voice_tags), None) may yield for e.
ChoicesFor(e, vts) ==
    IF IsRace(e.slug) \/ IsNone(TagsText(e)) THEN {None}
    ELSE VoiceTagChoices(TagSet(Val(TagsText(e))), vts)

----------------------------------------------------------------------------
(* The process.                                                            *)

NoRequest == [op |-> "none", nation |-> "", arg |-> EmptyMap, subs |-> EmptyMap, out |-> Return(None)]

Init ==
    /\ pc = "start"
    /\ voice_tags = {}
    /\ nation_xmls = EmptyMap
    /\ tankmen = EmptyMap
    /\ cur = ""
    /\ idx = 0
    /\ last = NoRequest
    /\ ref = << >>
    /\ name = Return(None)

\* __init__, line 89.
LoadVoiceTags ==
    /\ pc = "start"
    /\ voice_tags' = load_special_voice_tags
    /\ pc' = "loading"
    /\ UNCHANGED << nation_xmls, tankmen, cur, idx, last, ref, name >>

\* Lines 94-100: the next file of the listing, in any order, is read and
\* stored verbatim.
LoadFile(pool, most) ==
    /\ pc = "loading"
    /\ \E n \in Nations \ DOMAIN nation_xmls :
       \E doc \in Docs(pool[n], most - Stored(nation_xmls, DOMAIN nation_xmls)) :
        /\ nation_xmls' = Put(nation_xmls, n, doc)
        /\ cur' = n
        /\ idx' = 1
        /\ pc' = IF Len(doc) = 0 THEN "loading" ELSE "scanning"
    /\ UNCHANGED << voice_tags, tankmen, last, ref, name >>

\* The element the loop of line 102 is at.
CurrentRecord == ParseRecord(nation_xmls[cur][idx])

\* The loop goes on with the directory the body left, or the exception
\* leaves load_tankmen and __init__.
ScanDone(got) ==
    IF got.ok
    THEN /\ tankmen' = got.val
         /\ idx' = idx + 1
         /\ pc' = IF idx = Len(nation_xmls[cur]) THEN "loading" ELSE "scanning"
    ELSE /\ pc' = "crashed"
         /\ UNCHANGED << tankmen, idx >>

\* Lines 102-135: the loop body on the next record of the current file.
ScanRecord ==
    /\ pc = "scanning"
    /\ \E voice_tag \in ChoicesFor(CurrentRecord, voice_tags) :
          ScanDone(ScanOne(tankmen, cur, CurrentRecord, voice_tag))
    /\ UNCHANGED << voice_tags, nation_xmls, cur, last, ref, name >>

\* Line 166: every file of the listing is scanned, the app exists and
\* requests are served.
StartServing ==
    /\ pc = "loading"
    /\ pc' = "serving"
    /\ cur' = ""
    /\ idx' = 0
    /\ UNCHANGED << voice_tags, nation_xmls, tankmen, last, ref, name >>

----------------------------------------------------------------------------
(* TankStylesApp.substitute.                                               *)

\* Rewritten without the replace of line 143.
RewrittenUnreplaced(e, source_tag, target_tag, data) ==
    [e EXCEPT !.tags = Some(data.tags),
              !.firstNames = Some([Val(@) EXCEPT ![1] = data.first_name]),
              !.lastNames = Some([Val(@) EXCEPT ![1] = data.last_name]),
              !.icons = Some([Val(@) EXCEPT ![1] = data.icon])]

\* Lines 143-146 once nothing can raise: the element with the tags text and
\* the first child of each name container overwritten.
Rewritten(e, source_tag, target_tag, data) ==
    [e EXCEPT !.tags = Some(Some(Replace(Val(data.tags), source_tag, target_tag))),
              !.firstNames = Some([Val(@) EXCEPT ![1] = data.first_name]),
              !.lastNames = Some([Val(@) EXCEPT ![1] = data.last_name]),
              !.icons = Some([Val(@) EXCEPT ![1] = data.icon])]

\* Lines 143-146: the exceptions in the order the statements meet them.
Rewrite(e, nation, source, target) ==
    IF nation \notin DOMAIN target.nation_data THEN Raise("KeyError")
    ELSE IF IsNone(e.tags) THEN Raise("AttributeError")
    ELSE IF ~FirstChildText(e.firstNames).ok THEN FirstChildText(e.firstNames)
    ELSE IF ~FirstChildText(e.lastNames).ok THEN FirstChildText(e.lastNames)
    ELSE IF ~FirstChildText(e.icons).ok THEN FirstChildText(e.icons)
    ELSE Return(Rewritten(e, source.voice_tag, target.voice_tag, target.nation_data[nation]))

\* SubstituteRecord as an exchange: the record a key is mapped to takes the
\* values of that key's Tankman.
SubstituteRecordBothWays(tm, nation, substitutions, e) ==
    IF e.slug \in DOMAIN substitutions
    THEN (IF e.slug \notin DOMAIN tm THEN Raise("KeyError")
          ELSE IF substitutions[e.slug] \notin DOMAIN tm THEN Raise("KeyError")
          ELSE Rewrite(e, nation, tm[e.slug], tm[substitutions[e.slug]]))
    ELSE IF e.slug \in DOMAIN tm
            /\ \E k \in DOMAIN substitutions : k \in DOMAIN tm /\ substitutions[k] = e.slug
    THEN Rewrite(e, nation, tm[e.slug],
                 tm[CHOOSE k \in DOMAIN substitutions :
                        k \in DOMAIN tm /\ substitutions[k] = e.slug])
    ELSE Return(e)

\* Lines 140-146 on one element.
SubstituteRecord(tm, nation, substitutions, e) ==
    IF e.slug \notin DOMAIN substitutions THEN Return(e)
    ELSE IF e.slug \notin DOMAIN tm THEN Raise("KeyError")
    ELSE IF substitutions[e.slug] \notin DOMAIN tm THEN Raise("KeyError")
    ELSE Rewrite(e, nation, tm[e.slug], tm[substitutions[e.slug]])

\* Lines 139-148: the loop over the elements, left by the first exception.
SubstituteXml(tm, nation, substitutions, xml) ==
    IF \E i \in 1..Len(xml) : ~SubstituteRecord(tm, nation, substitutions, xml[i]).ok
    THEN SubstituteRecord(tm, nation, substitutions,
            xml[CHOOSE i \in 1..Len(xml) :
                  /\ ~SubstituteRecord(tm, nation, substitutions, xml[i]).ok
                  /\ \A j \in 1..(i - 1) : SubstituteRecord(tm, nation, substitutions, xml[j]).ok])
    ELSE Return(tostring([i \in 1..Len(xml) |->
                            SubstituteRecord(tm, nation, substitutions, xml[i]).val]))

\* substitute(nation, substitutions) on the directory tm and the stored
\* documents xmls.
Substitute(tm, xmls, nation, substitutions) ==
    IF nation \notin DOMAIN xmls THEN Raise("KeyError")
    ELSE SubstituteXml(tm, nation, substitutions, load_xml_from_str(xmls[nation]))

\* substitute keeping the rewritten document as the nation's stored one.
StoredRewritten(xmls, nation, out) ==
    IF out.ok THEN Put(xmls, nation, out.val) ELSE xmls

\* What substitute leaves in nation_xmls: it parsed a copy and stored
\* nothing.
StoredAfterSubstitute(xmls, nation, out) == xmls

----------------------------------------------------------------------------
(* TankStylesApp.create_modpack and create_zip_file.                       *)

\* Retained without lines 154-155: the target is not looked up.
RetainedAnyTarget(tm, form) ==
    {source_slug \in DOMAIN form :
        /\ source_slug \in DOMAIN tm
        /\ form[source_slug] # << >>}

\* Line 152 and lines 154-155: the source slugs the loop does not pass over.
Retained(tm, form) ==
    {source_slug \in DOMAIN form :
        /\ source_slug \in DOMAIN tm
        /\ form[source_slug] # << >>
        /\ form[source_slug] \in DOMAIN tm}

\* Lines 151-158: nation_substitutions when the loop is done.
NationSubstitutions(tm, form) ==
    [nation \in UNION {DOMAIN tm[k].nation_data : k \in Retained(tm, form)} |->
        [source_slug \in {k \in Retained(tm, form) : nation \in DOMAIN tm[k].nation_data} |->
            form[source_slug]]]

\* Line 161: the name of a nation's file in the archive.
ArchivePath(nation) == << "res/scripts/item_defs/tankmen/", nation, ".xml" >>

\* Lines 160-163 and create_zip_file: the archive, one stored entry for
\* every nation of nation_substitutions.
Archive(tm, xmls, subs) ==
    [path \in {ArchivePath(n) : n \in DOMAIN subs} |->
        Substitute(tm, xmls, path[2], subs[path[2]]).val]

\* What create_modpack may do: return the archive, or raise what the first
\* failing substitute raised; which nation comes first is the dict's order.
ModpackOutcomes(tm, xmls, subs) ==
    IF \A n \in DOMAIN subs : Substitute(tm, xmls, n, subs[n]).ok
    THEN {Return(Archive(tm, xmls, subs))}
    ELSE {Substitute(tm, xmls, n, subs[n]) :
            n \in {m \in DOMAIN subs : ~Substitute(tm, xmls, m, subs[m]).ok}}

----------------------------------------------------------------------------
(* Requests.                                                               *)

\* Records of a nation file for the request path: the first-name, last-name
\* and icon texts differ from nation to nation and from slug to slug; the
\* tags hold two voice tags, no voice tag, or one voice tag that contains
\* another, the last in a record whose lastNames container has no child.
ServeTags == { << "w", " ", "v" >>, << "x" >> }

ServeFirst(n, slug) ==
    (IF n = "usa" THEN << >> ELSE << " " >>)
    \o << "#", "navajo", ":" >> \o (IF slug = A THEN << "alpha" >> ELSE << "beta" >>)

ServeLast(n, slug) ==
    << "#", "navajo", ":" >> \o (IF slug = A THEN << "beta" >> ELSE << "empty" >>)
    \o (IF n = "usa" THEN << >> ELSE << " " >>)

ServeRecords(n) ==
         {Rec(n, s, Some(t), Some(<< ServeFirst(n, s) >>), Some(<< ServeLast(n, s) >>)) :
            s \in {A, B}, t \in ServeTags}
    \cup {Rec(n, s, Some(<< "v", "w" >>), Some(<< ServeFirst(n, s) >>), Some(<< >>)) :
            s \in {A, B}}

ServePool == [n \in Nations |-> ServeRecords(n)]

\* The mappings a caller hands to substitute, and the submitted forms.
Mappings == UNION {[keys -> {A, B}] : keys \in SUBSET {A, B}}
Forms == UNION {[keys -> {<< >>, A, B}] : keys \in SUBSET {A, B}}

\* Lines 178: the tankmen handed to the template (their order is the
\* template's business).
ReadRequest ==
    /\ pc = "serving"
    /\ last = NoRequest
    /\ last' = [op |-> "read", nation |-> "", arg |-> EmptyMap, subs |-> EmptyMap,
                out |-> Return({tankmen[k] : k \in DOMAIN tankmen})]
    /\ UNCHANGED << pc, voice_tags, nation_xmls, tankmen, cur, idx, ref, name >>

\* A call of substitute.
SubstituteDone(nation, substitutions, out) ==
    /\ last' = [op |-> "substitute", nation |-> nation, arg |-> substitutions,
                subs |-> EmptyMap, out |-> out]
    /\ nation_xmls' = StoredAfterSubstitute(nation_xmls, nation, out)

SubstituteRequest ==
    /\ pc = "serving"
    /\ last = NoRequest
    /\ \E nation \in Nations : \E substitutions \in Mappings :
          SubstituteDone(nation, substitutions,
                         Substitute(tankmen, nation_xmls, nation, substitutions))
    /\ UNCHANGED << pc, voice_tags, tankmen, cur, idx, ref, name >>

\* Line 177: a POST, create_modpack(request.form).
ModpackRequest ==
    /\ pc = "serving"
    /\ last = NoRequest
    /\ \E form \in Forms :
       \E out \in ModpackOutcomes(tankmen, nation_xmls, NationSubstitutions(tankmen, form)) :
          last' = [op |-> "create_modpack", nation |-> "", arg |-> form,
                   subs |-> NationSubstitutions(tankmen, form), out |-> out]
    /\ UNCHANGED << pc, voice_tags, nation_xmls, tankmen, cur, idx, ref, name >>

\* The response is sent; nothing of the request is kept.
Deliver ==
    /\ pc = "serving"
    /\ last # NoRequest
    /\ last' = NoRequest
    /\ UNCHANGED << pc, voice_tags, nation_xmls, tankmen, cur, idx, ref, name >>

Next ==
    \/ LoadVoiceTags
    \/ LoadFile(ServePool, MaxServed)
    \/ ScanRecord
    \/ StartServing
    \/ ReadRequest
    \/ SubstituteRequest
    \/ ModpackRequest
    \/ Deliver

Spec == Init /\ [][Next]_vars

LoadPool == [n \in Nations |-> LoadRecords(n)]

NextLoad ==
    \/ LoadVoiceTags
    \/ LoadFile(LoadPool, MaxRecords)
    \/ ScanRecord
    \/ StartServing

SpecLoad == Init /\ [][NextLoad]_vars

----------------------------------------------------------------------------
(* get_name on its own: any reference string of at most MaxRefLen pieces.  *)

RefPieces == {"#", ":", "\n", " ", "navajo", "cache", "alpha", "zz"}

Refs == UNION {[1..m -> RefPieces] : m \in 0..MaxRefLen}

NotCalled == Raise("not called")

InitName ==
    /\ pc = "get_name"
    /\ voice_tags = {}
    /\ nation_xmls = EmptyMap
    /\ tankmen = EmptyMap
    /\ cur = ""
    /\ idx = 0
    /\ last = NoRequest
    /\ ref = << >>
    /\ name = NotCalled

\* g_mo_cache.get_name(user_string)
CallGetName ==
    /\ pc = "get_name"
    /\ name = NotCalled
    /\ \E user_string \in Refs :
        /\ ref' = user_string
        /\ name' = GetName(user_string)
    /\ UNCHANGED << pc, voice_tags, nation_xmls, tankmen, cur, idx, last >>

NextName == CallGetName

SpecName == InitName /\ [][NextName]_vars

----------------------------------------------------------------------------
(* Properties of get_name (under SpecName).                                *)

\* What the catalog cache is said to give for s: the stored value when s
\* holds #<cat>:<key>, cat is a loaded catalog and key is in it, else None.
StoredName(s) ==
    IF s = << >> \/ MatchStart(s) = 0 THEN None
    ELSE LET i == MatchStart(s)
             k == FilenameEnd(s, i)
             cat == SubSeq(s, i + 1, k)
             key == SubSeq(s, k + 2, SlugEnd(s, k + 2))
         IN  IF cat \in DOMAIN MoCache /\ key \in DOMAIN MoCache[cat]
             THEN Some(MoCache[cat][key]) ELSE None

\* C7: for every reference string get_name returns the stored value of key
\* in catalog cat when the string has the form #<cat>:<key> with cat loaded
\* and key present, returns None for every other input, and never raises.
C7_GetNameNeverRaises ==
    name # NotCalled => name = Return(StoredName(ref))

----------------------------------------------------------------------------
(* Properties of the load (under SpecLoad).                                *)

\* The tag set of a tags text split at whitespace.
WhitespaceSplit(text) ==
    {SubSeq(text, i, j) : <<i, j>> \in
        {c \in (1..Len(text)) \X (1..Len(text)) :
            /\ c[1] <= c[2]
            /\ \A m \in c[1]..c[2] : text[m] \notin Whitespace
            /\ (c[1] = 1 \/ text[c[1] - 1] \in Whitespace)
            /\ (c[2] = Len(text) \/ text[c[2] + 1] \in Whitespace)}}

\* The record r of a stored document qualifies: its slug does not contain
\* "race" and its whitespace-split tag set meets the voice-tag set.
Qualifies(r) ==
    /\ ~IsRace(r.slug)
    /\ ~IsNone(r.tags)
    /\ WhitespaceSplit(Val(r.tags)) \cap voice_tags # {}

\* The nations whose stored document holds a qualifying record of slug.
QualifyingNations(slug) ==
    {n \in DOMAIN nation_xmls :
        \E i \in 1..Len(nation_xmls[n]) :
            nation_xmls[n][i].slug = slug /\ Qualifies(nation_xmls[n][i])}

StoredSlugs ==
    {nation_xmls[n][i].slug : <<n, i>> \in
        {c \in (DOMAIN nation_xmls) \X (1..(MaxRecords + MaxServed)) : c[2] <= Len(nation_xmls[c[1]])}}

\* C6: after the load a slug is a key of the directory if and only if its
\* record qualifies in at least one nation (no "race" in the slug, and the
\* whitespace-split tag set meets the voice-tag set), and the keys of its
\* nation_data are exactly the nations in which its record qualifies.
C6_DirectoryIsQualifying ==
    pc = "serving" =>
        /\ \A slug \in StoredSlugs :
              slug \in DOMAIN tankmen <=> QualifyingNations(slug) # {}
        /\ \A slug \in DOMAIN tankmen :
              DOMAIN tankmen[slug].nation_data = QualifyingNations(slug)

\* C8: during the load a Tankman, once created, is never removed and keeps
\* its resolved first name, resolved last name, icon, slug and voice tag;
\* scanning a record only adds or overwrites the nation_data entry of the
\* nation being scanned; each slug maps to the one Tankman of that slug.
C8_TankmanFixedOnceCreated ==
    [][\A slug \in DOMAIN tankmen :
          /\ slug \in DOMAIN tankmen'
          /\ tankmen'[slug].first_name = tankmen[slug].first_name
          /\ tankmen'[slug].last_name = tankmen[slug].last_name
          /\ tankmen'[slug].icon = tankmen[slug].icon
          /\ tankmen'[slug].slug = slug
          /\ tankmen'[slug].voice_tag = tankmen[slug].voice_tag
          /\ \A n \in DOMAIN tankmen[slug].nation_data :
                /\ n \in DOMAIN tankmen'[slug].nation_data
                /\ n # cur => tankmen'[slug].nation_data[n] = tankmen[slug].nation_data[n]
          /\ DOMAIN tankmen'[slug].nation_data \subseteq
                DOMAIN tankmen[slug].nation_data \cup {cur}]_vars

\* A Tankman created at one nation has taken the raw data of a second
\* nation whose first name resolves to something else.
C8_Witness ==
    \E slug \in DOMAIN tankmen :
        /\ DOMAIN tankmen[slug].nation_data = Nations
        /\ \E n \in Nations :
              /\ ~IsNone(tankmen[slug].nation_data[n].first_name)
              /\ GetName(Strip(Val(tankmen[slug].nation_data[n].first_name))).val
                    # tankmen[slug].first_name

\* The record the scan is at has a selected voice tag and no last name: no
\* lastNames container, or one without children.
NoLastName(r) ==
    /\ Qualifies(r)
    /\ (IsNone(r.lastNames) \/ Val(r.lastNames) = << >>)

\* C9: a qualifying record without a last name (lastNames absent, or
\* present without children) does not make the load fail, and its nation's
\* SubstitutionData is stored with last_name equal to the empty string.
C9_MissingLastNameTolerated ==
    /\ pc = "crashed" => ~NoLastName(nation_xmls[cur][idx])
    /\ \A n \in DOMAIN nation_xmls : \A i \in 1..Len(nation_xmls[n]) :
          ( /\ NoLastName(nation_xmls[n][i])
            /\ (n # cur \/ i < idx \/ pc \in {"loading", "serving"})
            /\ \A j \in (i + 1)..Len(nation_xmls[n]) : nation_xmls[n][j].slug # nation_xmls[n][i].slug )
          => /\ nation_xmls[n][i].slug \in DOMAIN tankmen
             /\ n \in DOMAIN tankmen[nation_xmls[n][i].slug].nation_data
             /\ tankmen[nation_xmls[n][i].slug].nation_data[n].last_name = Some(<< >>)

\* C10: no Tankman of the directory has the sentinel '?empty?' as its
\* resolved first name or as its resolved last name.
C10_NoSentinelName ==
    \A slug \in DOMAIN tankmen :
        /\ tankmen[slug].first_name # Some(EmptySentinel)
        /\ tankmen[slug].last_name # Some(EmptySentinel)

----------------------------------------------------------------------------
(* Properties of the requests (under Spec).                                *)

\* The stored document the last substitute call was about.
LastDoc == nation_xmls[last.nation]

\* The directory's Tankman of the record i of that document, the one its
\* slug is mapped to, and the latter's data for the nation of the call.
SourceOf(i) == tankmen[LastDoc[i].slug]
TargetOf(i) == tankmen[last.arg[LastDoc[i].slug]]
TargetData(i) == TargetOf(i).nation_data[last.nation]

Mapped == {i \in 1..Len(LastDoc) : LastDoc[i].slug \in DOMAIN last.arg}

\* Everything the statement about record i names is there: both Tankmen,
\* the target's data for the nation, and the four texts of the record.
Applicable(i) ==
    /\ LastDoc[i].slug \in DOMAIN tankmen
    /\ last.arg[LastDoc[i].slug] \in DOMAIN tankmen
    /\ last.nation \in DOMAIN TargetOf(i).nation_data
    /\ ~IsNone(LastDoc[i].tags)
    /\ ~IsNone(LastDoc[i].firstNames) /\ Val(LastDoc[i].firstNames) # << >>
    /\ ~IsNone(LastDoc[i].lastNames) /\ Val(LastDoc[i].lastNames) # << >>
    /\ ~IsNone(LastDoc[i].icons) /\ Val(LastDoc[i].icons) # << >>

\* C1: in the document substitute returns, every record whose slug is a key
\* of the mapping has as tags the target's raw tags of that nation with each
\* occurrence of the source's voice tag replaced by the target's, and as
\* first name, last name and icon the target's raw values of that nation,
\* all taken from the directory whatever else the mapping holds; and the
\* document is returned whenever these values exist for every such record.
C1_MappedRecordsTakeTargetValues ==
    (last.op = "substitute" /\ last.nation \in DOMAIN nation_xmls) =>
        /\ (\A i \in Mapped : Applicable(i)) => last.out.ok
        /\ last.out.ok =>
            \A i \in Mapped :
                /\ last.out.val[i].slug = LastDoc[i].slug
                /\ last.out.val[i].tags =
                      Some(Replace(Val(TargetData(i).tags), SourceOf(i).voice_tag,
                                   TargetOf(i).voice_tag))
                /\ Val(last.out.val[i].firstNames)[1] = TextContent(TargetData(i).first_name)
                /\ Val(last.out.val[i].lastNames)[1] = TextContent(TargetData(i).last_name)
                /\ Val(last.out.val[i].icons)[1] = TextContent(TargetData(i).icon)

\* A swap of two records of one document was returned, and in one of them
\* the replacement changed the target's raw tags.
C1_Witness ==
    /\ last.op = "substitute"
    /\ last.out.ok
    /\ last.arg = (A :> B @@ B :> A)
    /\ \E i \in Mapped : \E j \in Mapped :
          /\ LastDoc[i].slug = A
          /\ LastDoc[j].slug = B
          /\ last.out.val[i].tags # Some(Val(TargetData(i).tags))
          /\ last.out.val[i].icons # LastDoc[i].icons

\* C2: every record whose slug is not a key of the mapping has in the
\* returned document the content it has in the stored one, whether or not
\* it ever qualified; with an empty mapping the document comes back with no
\* content changed.
C2_UnmappedRecordsUntouched ==
    (last.op = "substitute" /\ last.nation \in DOMAIN nation_xmls) =>
        /\ last.out.ok =>
            /\ Len(last.out.val) = Len(LastDoc)
            /\ \A i \in (1..Len(LastDoc)) \ Mapped : last.out.val[i] = LastDoc[i]
        /\ DOMAIN last.arg = {} => last.out = Return(LastDoc)

\* A returned document in which a mapped record changed beside a record
\* that is no key of the mapping and never came into the directory.
C2_Witness ==
    /\ last.op = "substitute"
    /\ last.out.ok
    /\ \E i \in Mapped : last.out.val[i] # LastDoc[i]
    /\ \E i \in (1..Len(LastDoc)) \ Mapped : LastDoc[i].slug \notin DOMAIN tankmen

\* C3: once requests are served no request changes the stored documents or
\* the directory, so a substitute call made again in the state a call left
\* returns what that call returned.
C3_RequestsLeaveStateAlone ==
    [][pc = "serving" =>
          /\ nation_xmls' = nation_xmls
          /\ tankmen' = tankmen
          /\ last'.op = "substitute" =>
                last'.out = Substitute(tankmen', nation_xmls', last'.nation, last'.arg)]_vars

\* A substitute call returned a document that differs from the stored one.
C3_Witness ==
    /\ last.op = "substitute"
    /\ last.out.ok
    /\ last.out.val # LastDoc

\* The entries of the submitted form that are to be kept.
Kept ==
    {k \in DOMAIN last.arg :
        k \in DOMAIN tankmen /\ last.arg[k] # << >> /\ last.arg[k] \in DOMAIN tankmen}

KeptIn(n) == {k \in Kept : n \in DOMAIN tankmen[k].nation_data}

\* C4: create_modpack keeps exactly the entries whose source is in the
\* directory and whose target is non-empty and in the directory; substitute
\* is called for exactly the nations in which a kept source has data, with
\* exactly the kept entries whose source has data there; and the archive
\* has exactly one entry res/scripts/item_defs/tankmen/<nation>.xml for
\* each of these nations.
C4_ModpackKeepsValidEntries ==
    last.op = "create_modpack" =>
        /\ DOMAIN last.subs = {n \in Nations : KeptIn(n) # {}}
        /\ \A n \in DOMAIN last.subs :
              last.subs[n] = [k \in KeptIn(n) |-> last.arg[k]]
        /\ last.out.ok =>
              /\ DOMAIN last.out.val = {ArchivePath(n) : n \in {m \in Nations : KeptIn(m) # {}}}
              /\ \A n \in DOMAIN last.subs :
                    last.out.val[ArchivePath(n)] =
                        Substitute(tankmen, nation_xmls, n, last.subs[n]).val

\* An archive with an entry, made from a form one of whose entries was
\* dropped, and without an entry for a nation of the dropped source.
C4_Witness ==
    /\ last.op = "create_modpack"
    /\ last.out.ok
    /\ DOMAIN last.out.val # {}
    /\ \E k \in (DOMAIN last.arg) \ Kept :
          /\ k \in DOMAIN tankmen
          /\ \E n \in DOMAIN tankmen[k].nation_data : ArchivePath(n) \notin DOMAIN last.out.val

\* C5: after a successful load create_modpack returns an archive for every
\* submitted form and never raises.
C5_ModpackNeverRaises ==
    last.op = "create_modpack" => last.out.ok

====
